---- MODULE Spec2Model ----
(***************************************************************************)
(* Model of lib/plugins/archive.js: the Archive plugin, which reconciles   *)
(* a repository's archived flag against settings.archived, in Apply mode   *)
(* (nop = false) or Preview mode (nop = true).                             *)
(*                                                                         *)
(* JavaScript values are pairs <<typeof, text>>, so that a boolean true    *)
(* and the string "true" are different values, as they are in the code.    *)
(***************************************************************************)
EXTENDS Integers, Sequences, FiniteSets, TLC

\* ------------------------------------------------------------- bounds
MaxCalls == 2        \* calls (sync or getState) started on the instance

\* ------------------------------------------------------------- JS values
Undefined == <<"undefined", "">>
Null == <<"object", "null">>
JSTrue == <<"boolean", "true">>
JSFalse == <<"boolean", "false">>
Str(s) == <<"string", s>>

TypeOf(v) == v[1]

\* ToBoolean of the values the model uses
Truthy(v) ==
  CASE v[1] = "boolean" -> v[2] = "true"
    [] v[1] = "string" -> v[2] # ""
    [] OTHER -> FALSE

Bool(b) == IF b THEN JSTrue ELSE JSFalse
\* !a
Not(a) == Bool(~Truthy(a))
\* a && b: the left operand when it is falsy, the right operand otherwise
And(a, b) == IF Truthy(a) THEN b ELSE a

\* ------------------------------------------------------------- the instance's inputs
\* this.repo of the tests (archive.test.js:18)
TheRepo == [owner |-> Str("test-owner"), repo |-> Str("test-repo")]

\* raw values of settings.archived
RawArchived ==
  {Undefined, JSTrue, JSFalse, Str("true"), Str("false"), Str("TRUE"), Str("1"), Null}

\* settings: absent, or an object with an optional archived field; the object
\* may or may not carry the owner and repo keys itself
NoSettings == [defined |-> FALSE, owner |-> Undefined, repo |-> Undefined, archived |-> Undefined]
SettingsValues ==
  {NoSettings}
  \cup {[defined |-> TRUE, owner |-> Undefined, repo |-> Undefined, archived |-> a] :
          a \in RawArchived}
  \cup {[defined |-> TRUE, owner |-> TheRepo.owner, repo |-> TheRepo.repo, archived |-> a] :
          a \in {JSTrue, Str("TRUE")}}

\* the status of the not-found error
NotFoundStatus == 404
OtherStatuses == {500, 403}

\* values of the archived attribute the remote may report
RemoteArchived == {JSTrue, JSFalse, Undefined}

\* repository snapshots: undefined (never fetched), null (not found), or data
NoRepository == [tag |-> "undefined", archived |-> Undefined]
NullRepository == [tag |-> "null", archived |-> Undefined]
RepoData(a) == [tag |-> "data", archived |-> a]

\* responses of the remote in flight to a call
NoError == [status |-> 0]
NoResp == [tag |-> "none", data |-> NoRepository, error |-> NoError]
DataResp(d) == [tag |-> "data", data |-> d, error |-> NoError]
ErrorResp(s) == [tag |-> "error", data |-> NoRepository, error |-> [status |-> s]]

Calls == {"a", "b"}
Kinds == {"sync", "getState"}

VARIABLES
  nop,          \* this.nop
  settings,     \* this.settings
  repository,   \* this.repository
  remote,       \* the repository at the remote: [exists, archived]
  pc,           \* per call: idle, get, gotresp, update, updresp, done
  kind,         \* per call: sync or getState
  getResp,      \* per call: the remote's response to the call's get
  updResp,      \* per call: the remote's response to the call's update
  seen,         \* per call: the value of "await this.getRepo()"
  sa,           \* per call: the local const shouldArchive of sync
  su,           \* per call: the local const shouldUnarchive of sync
  gets,         \* per call: requests sent to github.repos.get
  updates,      \* per call: parameters sent to github.repos.update
  logs,         \* per call: log entries emitted
  outcome,      \* per call: none, returned, threw
  results,      \* per call: the list sync returned
  state,        \* per call: the object getState returned
  thrown,       \* per call: the error the call rejected with
  probe,        \* what the last step, a direct call of the synchronous methods, returned
  started,      \* calls started so far
  quiet,        \* "acted" or "skipped" when the last completed call was an undisturbed
                \* successful sync with or without a result entry, else "no"
  after,        \* per call: quiet when the call started
  tainted,      \* per call: the call overlapped another call, an external mutation or a failure
  meddled       \* per call: another party changed the remote repository since the call started

cfgVars == <<nop, settings>>
callVars == <<pc, kind, getResp, updResp, seen, sa, su, gets, updates, logs, outcome, results, state, thrown>>
ghostVars == <<started, quiet, after, tainted, meddled>>
vars == <<cfgVars, repository, remote, callVars, probe, ghostVars>>

\* ------------------------------------------------------------- the plugin's functions
\* getRepo's outcome for a response of github.repos.get
GetRepoReturn(v) == [threw |-> FALSE, value |-> v, error |-> NoError]
GetRepoThrow(e) == [threw |-> TRUE, value |-> NoRepository, error |-> e]

\* getRepo without the not-found case: every error is rethrown
getRepo_ThrowsAll(r) ==
  IF r.tag = "data" THEN GetRepoReturn(r.data) ELSE GetRepoThrow(r.error)

\* getRepo with a catch that swallows every error
getRepo_SwallowsAll(r) ==
  IF r.tag = "data" THEN GetRepoReturn(r.data) ELSE GetRepoReturn(NullRepository)

getRepo(r) ==
  IF r.tag = "data"
  THEN GetRepoReturn(r.data)
  ELSE IF r.error.status = NotFoundStatus
       THEN GetRepoReturn(NullRepository)
       ELSE GetRepoThrow(r.error)

\* this.settings?.archived
SettingsArchived == IF settings.defined THEN settings.archived ELSE Undefined

\* getDesiredArchiveState coercing a non-boolean by truthiness
getDesiredArchiveState_Truthy ==
  IF TypeOf(SettingsArchived) = "undefined"
  THEN Null
  ELSE IF TypeOf(settings.archived) = "boolean"
       THEN settings.archived
       ELSE Bool(Truthy(settings.archived))

getDesiredArchiveState ==
  IF TypeOf(SettingsArchived) = "undefined"
  THEN Null
  ELSE IF TypeOf(settings.archived) = "boolean"
       THEN settings.archived
       ELSE Bool(settings.archived = Str("true"))

\* repository?.archived
ArchivedOf(repo) == IF repo.tag = "data" THEN repo.archived ELSE Undefined

\* shouldArchive without the comparison with the observed state
shouldArchive_IgnoresObserved(repo) ==
  LET desiredState == getDesiredArchiveState
  IN IF desiredState = Null THEN JSFalse ELSE desiredState

shouldArchive(repo) ==
  LET desiredState == getDesiredArchiveState
  IN IF desiredState = Null
     THEN JSFalse
     ELSE And(Not(ArchivedOf(repo)), desiredState)

\* shouldUnarchive without the guard for an unset desired state
shouldUnarchive_NoNullGuard(repo) ==
  And(ArchivedOf(repo), Not(getDesiredArchiveState))

shouldUnarchive(repo) ==
  LET desiredState == getDesiredArchiveState
  IN IF desiredState = Null
     THEN JSFalse
     ELSE And(ArchivedOf(repo), Not(desiredState))

isArchived == ArchivedOf(repository)

\* the word derived with the two cases exchanged
ActionWord_Inverted(archived) == IF Truthy(archived) THEN "unarchive" ELSE "archive"

\* the word updateRepoArchiveStatus derives from its argument
ActionWord(archived) == IF Truthy(archived) THEN "archive" ELSE "unarchive"

\* parameters of a remote update: owner, repo, archived
Params(o, r, a) == [owner |-> o, repo |-> r, archived |-> a]
NoParams == Params(Undefined, Undefined, Undefined)

\* the update sent with the flag inverted
UpdateParams_Inverted(archived) == Params(TheRepo.owner, TheRepo.repo, Not(archived))

\* the update sent with the raw setting in place of the decision
UpdateParams_RawSetting(archived) == Params(TheRepo.owner, TheRepo.repo, settings.archived)

\* the parameters Apply mode passes to github.repos.update
UpdateParams(archived) == Params(TheRepo.owner, TheRepo.repo, archived)

\* the parameters Preview mode passes to github.repos.update.endpoint: this.settings
EndpointParams(archived) == Params(settings.owner, settings.repo, settings.archived)

\* the change record of a preview
Change(action) ==
  [msg |-> "Change found", additions |-> {}, modifications |-> action, deletions |-> {}]
NoChange == [msg |-> "", additions |-> {}, modifications |-> "", deletions |-> {}]

\* entries of the list sync returns: a NopCommand, or undefined
NopCommand(plugin, repo, endpoint, change, level) ==
  [type |-> "NopCommand", plugin |-> plugin, repo |-> repo, endpoint |-> endpoint,
   change |-> change, level |-> level]
UndefinedEntry ==
  [type |-> "undefined", plugin |-> "", repo |-> TheRepo, endpoint |-> NoParams,
   change |-> NoChange, level |-> ""]

\* updateRepoArchiveStatus in Preview mode
PreviewEntry(archived) ==
  NopCommand("Archive", TheRepo, EndpointParams(archived), Change(ActionWord(archived)), "INFO")

\* log entries
WarnNotFound == [level |-> "warn", msg |-> "not found, skipping archive sync"]
DebugNoChange == [level |-> "debug", msg |-> "No archive changes needed"]
DebugDone(archived) == [level |-> "debug", msg |-> ActionWord(archived) \o "d"]

\* getState's result
StateOf(repo) ==
  [isArchived |-> ArchivedOf(repo),
   shouldArchive |-> shouldArchive(repo),
   shouldUnarchive |-> shouldUnarchive(repo)]
NoState == [isArchived |-> Undefined, shouldArchive |-> Undefined, shouldUnarchive |-> Undefined]

\* ------------------------------------------------------------- the remote
\* github.repos.get at the remote
RemoteGet ==
  IF remote.exists THEN DataResp(RepoData(remote.archived)) ELSE ErrorResp(NotFoundStatus)

\* whether an update with these parameters finds its repository
UpdateHits(p) == remote.exists /\ p.owner = TheRepo.owner /\ p.repo = TheRepo.repo

\* github.repos.update at the remote: the repository after it, and the response
RemoteAfterUpdate(p) ==
  IF UpdateHits(p) THEN [remote EXCEPT !.archived = p.archived] ELSE remote
RemoteUpdateResp(p) ==
  IF UpdateHits(p) THEN DataResp(RepoData(p.archived)) ELSE ErrorResp(NotFoundStatus)

\* ------------------------------------------------------------- initial states
NoProbe == [called |-> FALSE, desired |-> Undefined, isArchived |-> Undefined,
            shouldArchive |-> Undefined, shouldUnarchive |-> Undefined]

Init ==
  /\ nop \in BOOLEAN
  /\ settings \in SettingsValues
  /\ repository = NoRepository
  /\ remote \in {[exists |-> FALSE, archived |-> Undefined]}
                  \cup {[exists |-> TRUE, archived |-> a] : a \in RemoteArchived}
  /\ pc = [c \in Calls |-> "idle"]
  /\ kind = [c \in Calls |-> "sync"]
  /\ getResp = [c \in Calls |-> NoResp]
  /\ updResp = [c \in Calls |-> NoResp]
  /\ seen = [c \in Calls |-> NoRepository]
  /\ sa = [c \in Calls |-> Undefined]
  /\ su = [c \in Calls |-> Undefined]
  /\ gets = [c \in Calls |-> 0]
  /\ updates = [c \in Calls |-> <<>>]
  /\ logs = [c \in Calls |-> <<>>]
  /\ outcome = [c \in Calls |-> "none"]
  /\ results = [c \in Calls |-> <<>>]
  /\ state = [c \in Calls |-> NoState]
  /\ thrown = [c \in Calls |-> NoError]
  /\ probe = NoProbe
  /\ started = 0
  /\ quiet = "no"
  /\ after = [c \in Calls |-> "no"]
  /\ tainted = [c \in Calls |-> FALSE]
  /\ meddled = [c \in Calls |-> FALSE]

Active(c) == pc[c] \notin {"idle", "done"}
OthersActive(c) == \E d \in Calls \ {c} : Active(d)

\* a new call takes the first slot that holds no call in progress
FreeSlot == IF ~Active("a") THEN "a" ELSE "b"

\* every call started so far is disturbed
Disturb ==
  /\ quiet' = "no"
  /\ tainted' = [c \in Calls |-> pc[c] # "idle"]

\* a per-call variable when call c starts: c's entry is set, and the record of
\* every other call that has finished is dropped with the call's return
Fresh(f, c, v, blank) ==
  [d \in Calls |-> IF d = c THEN v ELSE IF pc[d] = "done" THEN blank ELSE f[d]]

\* ------------------------------------------------------------- steps of a call
\* sync() or getState() is called: getRepo sends the request to github.repos.get
Start(c, k) ==
  /\ ~Active(c)
  /\ c = FreeSlot
  /\ started < MaxCalls
  /\ started' = started + 1
  /\ pc' = Fresh(pc, c, "get", "idle")
  /\ kind' = Fresh(kind, c, k, "sync")
  /\ getResp' = Fresh(getResp, c, NoResp, NoResp)
  /\ updResp' = Fresh(updResp, c, NoResp, NoResp)
  /\ seen' = Fresh(seen, c, NoRepository, NoRepository)
  /\ sa' = Fresh(sa, c, Undefined, Undefined)
  /\ su' = Fresh(su, c, Undefined, Undefined)
  /\ gets' = Fresh(gets, c, 1, 0)
  /\ updates' = Fresh(updates, c, <<>>, <<>>)
  /\ logs' = Fresh(logs, c, <<>>, <<>>)
  /\ outcome' = Fresh(outcome, c, "none", "none")
  /\ results' = Fresh(results, c, <<>>, <<>>)
  /\ state' = Fresh(state, c, NoState, NoState)
  /\ thrown' = Fresh(thrown, c, NoError, NoError)
  /\ IF OthersActive(c)
     THEN /\ quiet' = "no"
          /\ tainted' = [d \in Calls |-> TRUE]
          /\ after' = Fresh(after, c, "no", "no")
     ELSE /\ after' = Fresh(after, c, IF k = "sync" THEN quiet ELSE "no", "no")
          /\ tainted' = Fresh(tainted, c, FALSE, FALSE)
          /\ quiet' = IF k = "sync" THEN quiet ELSE "no"
  /\ meddled' = Fresh(meddled, c, FALSE, FALSE)
  /\ UNCHANGED <<cfgVars, repository, remote>>
  /\ probe' = NoProbe

StartSync(c) == Start(c, "sync")
StartGetState(c) == Start(c, "getState")

\* the remote answers the get
ServerGet(c) ==
  /\ pc[c] = "get"
  /\ getResp' = [getResp EXCEPT ![c] = RemoteGet]
  /\ pc' = [pc EXCEPT ![c] = "gotresp"]
  /\ UNCHANGED <<cfgVars, repository, remote, kind, updResp, seen, sa, su, gets, updates, logs,
                 outcome, results, state, thrown, ghostVars>>
  /\ probe' = NoProbe

\* the get fails with a status other than not-found
ServerGetFail(c) ==
  /\ pc[c] = "get"
  /\ \E s \in OtherStatuses : getResp' = [getResp EXCEPT ![c] = ErrorResp(s)]
  /\ pc' = [pc EXCEPT ![c] = "gotresp"]
  /\ Disturb
  /\ UNCHANGED <<cfgVars, repository, remote, kind, updResp, seen, sa, su, gets, updates, logs,
                 outcome, results, state, thrown, started, after, meddled>>
  /\ probe' = NoProbe

\* the call ends: what it returned or threw, and the ghost record of quiet runs
Finish(c, how) ==
  /\ pc' = [pc EXCEPT ![c] = "done"]
  /\ outcome' = [outcome EXCEPT ![c] = how]
  /\ quiet' = IF how = "returned" /\ kind[c] = "sync" /\ ~tainted[c] /\ ~OthersActive(c)
              THEN (IF results'[c] = <<>> THEN "skipped" ELSE "acted")
              ELSE "no"
  /\ UNCHANGED <<tainted, after, started, meddled>>

\* getRepo rejects: the await in sync or getState rethrows, nothing is assigned
ResumeGetThrow(c) ==
  /\ pc[c] = "gotresp"
  /\ getRepo(getResp[c]).threw
  /\ thrown' = [thrown EXCEPT ![c] = getRepo(getResp[c]).error]
  /\ UNCHANGED <<cfgVars, repository, remote, kind, getResp, updResp, seen, sa, su, gets,
                 updates, logs, results, state>>
  /\ probe' = NoProbe
  /\ Finish(c, "threw")

\* getState keeping the fetched value in a local while the predicates still read
\* the field this.repository
ResumeGetState_ReadsField(c) ==
  /\ pc[c] = "gotresp"
  /\ kind[c] = "getState"
  /\ ~getRepo(getResp[c]).threw
  /\ seen' = [seen EXCEPT ![c] = getRepo(getResp[c]).value]
  /\ state' = [state EXCEPT ![c] = StateOf(repository)]
  /\ UNCHANGED <<cfgVars, repository, remote, kind, getResp, updResp, sa, su, gets, updates,
                 logs, results, thrown>>
  /\ probe' = NoProbe
  /\ Finish(c, "returned")

\* getState after its await
ResumeGetState(c) ==
  /\ pc[c] = "gotresp"
  /\ kind[c] = "getState"
  /\ ~getRepo(getResp[c]).threw
  /\ seen' = [seen EXCEPT ![c] = getRepo(getResp[c]).value]
  /\ repository' = seen'[c]
  /\ state' = [state EXCEPT ![c] = StateOf(repository')]
  /\ UNCHANGED <<cfgVars, remote, kind, getResp, updResp, sa, su, gets, updates, logs, results,
                 thrown>>
  /\ probe' = NoProbe
  /\ Finish(c, "returned")

\* sync without the early return for a repository that was not found: it logs the
\* warning and goes on to the predicates and the update
SyncNotFound_NoEarlyReturn(c) ==
  /\ pc[c] = "gotresp"
  /\ kind[c] = "sync"
  /\ ~getRepo(getResp[c]).threw
  /\ seen' = [seen EXCEPT ![c] = getRepo(getResp[c]).value]
  /\ repository' = seen'[c]
  /\ repository'.tag # "data"
  /\ sa' = [sa EXCEPT ![c] = shouldArchive(repository')]
  /\ su' = [su EXCEPT ![c] = shouldUnarchive(repository')]
  /\ UNCHANGED <<cfgVars, remote, kind, getResp, updResp, gets, state, thrown>>
  /\ probe' = NoProbe
  /\ IF (Truthy(sa'[c]) \/ Truthy(su'[c])) /\ ~nop
     THEN /\ logs' = [logs EXCEPT ![c] = Append(@, WarnNotFound)]
          /\ updates' = [updates EXCEPT ![c] = Append(@, UpdateParams(sa'[c]))]
          /\ pc' = [pc EXCEPT ![c] = "update"]
          /\ UNCHANGED <<outcome, results, ghostVars>>
     ELSE /\ logs' = [logs EXCEPT ![c] = Append(@, WarnNotFound)]
          /\ results' = [results EXCEPT ![c] =
                           IF Truthy(sa'[c]) \/ Truthy(su'[c])
                           THEN <<PreviewEntry(sa'[c])>> ELSE <<>>]
          /\ UNCHANGED updates
          /\ Finish(c, "returned")

\* sync after its first await, repository not found
SyncNotFound(c) ==
  /\ pc[c] = "gotresp"
  /\ kind[c] = "sync"
  /\ ~getRepo(getResp[c]).threw
  /\ seen' = [seen EXCEPT ![c] = getRepo(getResp[c]).value]
  /\ repository' = seen'[c]
  /\ repository'.tag # "data"
  /\ logs' = [logs EXCEPT ![c] = Append(@, WarnNotFound)]
  /\ results' = [results EXCEPT ![c] = <<>>]
  /\ UNCHANGED <<cfgVars, remote, kind, getResp, updResp, sa, su, gets, updates, state,
                 thrown>>
  /\ probe' = NoProbe
  /\ Finish(c, "returned")

\* sync without the early return when neither predicate is truthy: it goes on to
\* updateRepoArchiveStatus(shouldArchive)
SyncNoChange_FallsThrough(c) ==
  /\ pc[c] = "gotresp"
  /\ kind[c] = "sync"
  /\ ~getRepo(getResp[c]).threw
  /\ seen' = [seen EXCEPT ![c] = getRepo(getResp[c]).value]
  /\ repository' = seen'[c]
  /\ repository'.tag = "data"
  /\ sa' = [sa EXCEPT ![c] = shouldArchive(repository')]
  /\ su' = [su EXCEPT ![c] = shouldUnarchive(repository')]
  /\ ~Truthy(sa'[c]) /\ ~Truthy(su'[c])
  /\ logs' = [logs EXCEPT ![c] = Append(@, DebugNoChange)]
  /\ UNCHANGED <<cfgVars, remote, kind, getResp, updResp, gets, state, thrown>>
  /\ probe' = NoProbe
  /\ IF nop
     THEN /\ results' = [results EXCEPT ![c] = <<PreviewEntry(sa'[c])>>]
          /\ UNCHANGED updates
          /\ Finish(c, "returned")
     ELSE /\ updates' = [updates EXCEPT ![c] = Append(@, UpdateParams(sa'[c]))]
          /\ pc' = [pc EXCEPT ![c] = "update"]
          /\ UNCHANGED <<outcome, results, ghostVars>>

\* sync after its first await, neither predicate truthy
SyncNoChange(c) ==
  /\ pc[c] = "gotresp"
  /\ kind[c] = "sync"
  /\ ~getRepo(getResp[c]).threw
  /\ seen' = [seen EXCEPT ![c] = getRepo(getResp[c]).value]
  /\ repository' = seen'[c]
  /\ repository'.tag = "data"
  /\ sa' = [sa EXCEPT ![c] = shouldArchive(repository')]
  /\ su' = [su EXCEPT ![c] = shouldUnarchive(repository')]
  /\ ~Truthy(sa'[c]) /\ ~Truthy(su'[c])
  /\ logs' = [logs EXCEPT ![c] = Append(@, DebugNoChange)]
  /\ results' = [results EXCEPT ![c] = <<>>]
  /\ UNCHANGED <<cfgVars, remote, kind, getResp, updResp, gets, updates, state, thrown>>
  /\ probe' = NoProbe
  /\ Finish(c, "returned")

\* sync after its first await, a change is needed, Preview mode: the NopCommand
SyncPreview(c) ==
  /\ pc[c] = "gotresp"
  /\ kind[c] = "sync"
  /\ ~getRepo(getResp[c]).threw
  /\ seen' = [seen EXCEPT ![c] = getRepo(getResp[c]).value]
  /\ repository' = seen'[c]
  /\ repository'.tag = "data"
  /\ sa' = [sa EXCEPT ![c] = shouldArchive(repository')]
  /\ su' = [su EXCEPT ![c] = shouldUnarchive(repository')]
  /\ Truthy(sa'[c]) \/ Truthy(su'[c])
  /\ nop
  /\ results' = [results EXCEPT ![c] = <<PreviewEntry(sa'[c])>>]
  /\ UNCHANGED <<cfgVars, remote, kind, getResp, updResp, gets, updates, logs, state, thrown>>
  /\ probe' = NoProbe
  /\ Finish(c, "returned")

\* the update sent without looking at this.nop
SyncSendUpdate_IgnoresNop(c) ==
  /\ pc[c] = "gotresp"
  /\ kind[c] = "sync"
  /\ ~getRepo(getResp[c]).threw
  /\ seen' = [seen EXCEPT ![c] = getRepo(getResp[c]).value]
  /\ repository' = seen'[c]
  /\ repository'.tag = "data"
  /\ sa' = [sa EXCEPT ![c] = shouldArchive(repository')]
  /\ su' = [su EXCEPT ![c] = shouldUnarchive(repository')]
  /\ Truthy(sa'[c]) \/ Truthy(su'[c])
  /\ updates' = [updates EXCEPT ![c] = Append(@, UpdateParams(sa'[c]))]
  /\ pc' = [pc EXCEPT ![c] = "update"]
  /\ UNCHANGED <<cfgVars, remote, kind, getResp, updResp, gets, logs, outcome, results, state,
                 thrown, ghostVars>>
  /\ probe' = NoProbe

\* the update sent with shouldUnarchive in place of shouldArchive
SyncSendUpdate_SendsUnarchiveFlag(c) ==
  /\ pc[c] = "gotresp"
  /\ kind[c] = "sync"
  /\ ~getRepo(getResp[c]).threw
  /\ seen' = [seen EXCEPT ![c] = getRepo(getResp[c]).value]
  /\ repository' = seen'[c]
  /\ repository'.tag = "data"
  /\ sa' = [sa EXCEPT ![c] = shouldArchive(repository')]
  /\ su' = [su EXCEPT ![c] = shouldUnarchive(repository')]
  /\ Truthy(sa'[c]) \/ Truthy(su'[c])
  /\ ~nop
  /\ updates' = [updates EXCEPT ![c] = Append(@, UpdateParams(su'[c]))]
  /\ pc' = [pc EXCEPT ![c] = "update"]
  /\ UNCHANGED <<cfgVars, remote, kind, getResp, updResp, gets, logs, outcome, results, state,
                 thrown, ghostVars>>
  /\ probe' = NoProbe

\* sync after its first await, a change is needed, Apply mode: the update is sent
SyncSendUpdate(c) ==
  /\ pc[c] = "gotresp"
  /\ kind[c] = "sync"
  /\ ~getRepo(getResp[c]).threw
  /\ seen' = [seen EXCEPT ![c] = getRepo(getResp[c]).value]
  /\ repository' = seen'[c]
  /\ repository'.tag = "data"
  /\ sa' = [sa EXCEPT ![c] = shouldArchive(repository')]
  /\ su' = [su EXCEPT ![c] = shouldUnarchive(repository')]
  /\ Truthy(sa'[c]) \/ Truthy(su'[c])
  /\ ~nop
  /\ updates' = [updates EXCEPT ![c] = Append(@, UpdateParams(sa'[c]))]
  /\ pc' = [pc EXCEPT ![c] = "update"]
  /\ UNCHANGED <<cfgVars, remote, kind, getResp, updResp, gets, logs, outcome, results, state,
                 thrown, ghostVars>>
  /\ probe' = NoProbe

\* the remote applies the update and answers
ServerUpdate(c) ==
  /\ pc[c] = "update"
  /\ remote' = RemoteAfterUpdate(updates[c][Len(updates[c])])
  /\ updResp' = [updResp EXCEPT ![c] = RemoteUpdateResp(updates[c][Len(updates[c])])]
  /\ pc' = [pc EXCEPT ![c] = "updresp"]
  /\ IF updResp'[c].tag = "error"
     THEN Disturb /\ UNCHANGED <<started, after, meddled>>
     ELSE UNCHANGED ghostVars
  /\ UNCHANGED <<cfgVars, repository, kind, getResp, seen, sa, su, gets, updates, logs,
                 outcome, results, state, thrown>>
  /\ probe' = NoProbe

\* the update fails with a status other than not-found, and changes nothing
ServerUpdateFail(c) ==
  /\ pc[c] = "update"
  /\ \E s \in OtherStatuses : updResp' = [updResp EXCEPT ![c] = ErrorResp(s)]
  /\ pc' = [pc EXCEPT ![c] = "updresp"]
  /\ Disturb
  /\ UNCHANGED <<cfgVars, repository, remote, kind, getResp, seen, sa, su, gets, updates, logs,
                 outcome, results, state, thrown, started, after, meddled>>
  /\ probe' = NoProbe

\* updateRepoArchiveStatus after its await: the debug log, then sync pushes and returns
ResumeUpdateOk(c) ==
  /\ pc[c] = "updresp"
  /\ updResp[c].tag = "data"
  /\ logs' = [logs EXCEPT ![c] = Append(@, DebugDone(sa[c]))]
  /\ results' = [results EXCEPT ![c] = <<UndefinedEntry>>]
  /\ UNCHANGED <<cfgVars, repository, remote, kind, getResp, updResp, seen, sa, su, gets,
                 updates, state, thrown>>
  /\ probe' = NoProbe
  /\ Finish(c, "returned")

\* the update rejected: updateRepoArchiveStatus and sync rethrow
ResumeUpdateThrow(c) ==
  /\ pc[c] = "updresp"
  /\ updResp[c].tag = "error"
  /\ thrown' = [thrown EXCEPT ![c] = updResp[c].error]
  /\ UNCHANGED <<cfgVars, repository, remote, kind, getResp, updResp, seen, sa, su, gets,
                 updates, logs, results, state>>
  /\ probe' = NoProbe
  /\ Finish(c, "threw")

\* ------------------------------------------------------------- the environment
\* another party archives, unarchives, deletes or creates the repository
External ==
  /\ \E r \in {[exists |-> FALSE, archived |-> Undefined]}
                \cup {[exists |-> TRUE, archived |-> a] : a \in {JSTrue, JSFalse}} :
       /\ r # remote
       /\ remote' = r
  /\ Disturb
  /\ meddled' = [c \in Calls |-> pc[c] # "idle"]
  /\ UNCHANGED <<cfgVars, repository, callVars, started, after>>
  /\ probe' = NoProbe

\* between invocations a caller invokes the synchronous methods directly, with
\* their default arguments; probe holds what they returned until the next step
Query ==
  /\ \A c \in Calls : ~Active(c)
  /\ probe' = [called |-> TRUE, desired |-> getDesiredArchiveState, isArchived |-> isArchived,
               shouldArchive |-> shouldArchive(repository),
               shouldUnarchive |-> shouldUnarchive(repository)]
  /\ probe' # probe
  /\ UNCHANGED <<cfgVars, repository, remote, callVars, ghostVars>>

Next ==
  \/ \E c \in Calls : StartSync(c)
  \/ \E c \in Calls : StartGetState(c)
  \/ \E c \in Calls : ServerGet(c)
  \/ \E c \in Calls : ServerGetFail(c)
  \/ \E c \in Calls : ResumeGetThrow(c)
  \/ \E c \in Calls : ResumeGetState(c)
  \/ \E c \in Calls : SyncNotFound(c)
  \/ \E c \in Calls : SyncNoChange(c)
  \/ \E c \in Calls : SyncPreview(c)
  \/ \E c \in Calls : SyncSendUpdate(c)
  \/ \E c \in Calls : ServerUpdate(c)
  \/ \E c \in Calls : ServerUpdateFail(c)
  \/ \E c \in Calls : ResumeUpdateOk(c)
  \/ \E c \in Calls : ResumeUpdateThrow(c)
  \/ External
  \/ Query

Spec == Init /\ [][Next]_vars

\* ------------------------------------------------------------- properties
\* the normalized desired state of the instance
Desired == getDesiredArchiveState
\* sync call c has finished and returned a list
SyncReturned(c) == pc[c] = "done" /\ kind[c] = "sync" /\ outcome[c] = "returned"
\* sync call c has computed its two predicates
Decided(c) == kind[c] = "sync" /\ sa[c] # Undefined
\* the action the specification's decision table selects for an observed archived value
TableArchive(obs) == Desired = JSTrue /\ ~Truthy(obs)
TableUnarchive(obs) == Desired = JSFalse /\ Truthy(obs)
\* the fetch of call c found the repository and the table selects an action for it
ActionNeeded(c) ==
  /\ seen[c].tag = "data"
  /\ TableArchive(seen[c].archived) \/ TableUnarchive(seen[c].archived)

\* C1: for every observed resource and every normalized desired state the two
\* predicates select Archive iff desired = True and the observed archived is falsy,
\* Unarchive iff desired = False and the observed archived is truthy, nothing
\* otherwise (always nothing when desired is Unset), and never both. Checked on the
\* predicates sync computed from its snapshot and on those getState returned.
C1_DecisionTable ==
  /\ \A c \in Calls :
       Decided(c) =>
         /\ Truthy(sa[c]) <=> TableArchive(seen[c].archived)
         /\ Truthy(su[c]) <=> TableUnarchive(seen[c].archived)
         /\ ~(Truthy(sa[c]) /\ Truthy(su[c]))
         /\ Desired = Null => ~Truthy(sa[c]) /\ ~Truthy(su[c])
  /\ \A c \in Calls :
       (pc[c] = "done" /\ kind[c] = "getState" /\ outcome[c] = "returned"
          /\ seen[c].tag = "data") =>
         /\ Truthy(state[c].shouldArchive) <=> TableArchive(state[c].isArchived)
         /\ Truthy(state[c].shouldUnarchive) <=> TableUnarchive(state[c].isArchived)
         /\ ~(Truthy(state[c].shouldArchive) /\ Truthy(state[c].shouldUnarchive))
         /\ Desired = Null =>
              ~Truthy(state[c].shouldArchive) /\ ~Truthy(state[c].shouldUnarchive)

\* a sync and a getState each selected Unarchive for an archived repository
C1_Witness ==
  /\ \E c \in Calls : Decided(c) /\ Truthy(su[c]) /\ seen[c].archived = JSTrue
  /\ \E c \in Calls : pc[c] = "done" /\ kind[c] = "getState" /\ seen[c].tag = "data"
                        /\ Truthy(state[c].shouldUnarchive)

\* C2: a sync that returns, returns zero or one entries: one exactly when the
\* repository was found and an action was needed (an update sent in Apply mode, a
\* NopCommand in Preview mode), zero otherwise.
C2_ZeroOrOneEntry ==
  \A c \in Calls :
    SyncReturned(c) =>
      /\ Len(results[c]) <= 1
      /\ Len(results[c]) = 1 <=> ActionNeeded(c)
      /\ Len(results[c]) = 1 =>
           IF nop THEN results[c][1].type = "NopCommand" /\ updates[c] = <<>>
                  ELSE Len(updates[c]) = 1 /\ updResp[c].tag = "data"
      /\ Len(results[c]) = 0 => updates[c] = <<>>

\* one sync returned an entry after applying an update and another returned none
C2_Witness ==
  /\ \E c \in Calls : SyncReturned(c) /\ Len(results[c]) = 1 /\ Len(updates[c]) = 1
  /\ \E c \in Calls : SyncReturned(c) /\ Len(results[c]) = 0

\* C3 as stated: in either mode, the second of two successive undisturbed
\* successful syncs returns the empty list.
C3_IdempotentAnyMode ==
  \A c \in Calls :
    (SyncReturned(c) /\ after[c] # "no" /\ ~tainted[c]) => results[c] = <<>>

\* C3 amended: in Apply mode the second of two successive undisturbed successful
\* syncs returns the empty list; in Preview mode it returns an entry exactly when the
\* first did.
C3_IdempotentApply ==
  \A c \in Calls :
    (SyncReturned(c) /\ after[c] # "no" /\ ~tainted[c]) =>
      IF nop THEN (results[c] = <<>> <=> after[c] = "skipped")
             ELSE results[c] = <<>>

\* in Apply mode a sync that applied an update was followed by an undisturbed sync
C3_Witness ==
  \E c \in Calls : SyncReturned(c) /\ after[c] = "acted" /\ ~tainted[c] /\ ~nop

\* C4: in Preview mode no call sends the remote update and no step of the
\* instance changes the remote repository; when an action is needed the result is
\* one NopCommand.
C4_PreviewState ==
  nop =>
    \A c \in Calls :
      /\ updates[c] = <<>>
      /\ pc[c] \notin {"update", "updresp"}
      /\ (SyncReturned(c) /\ ActionNeeded(c)) =>
           Len(results[c]) = 1 /\ results[c][1].type = "NopCommand"

C4_PreviewNoMutation ==
  []C4_PreviewState /\ [][(nop /\ ~External) => remote' = remote]_vars

\* a Preview sync returned a NopCommand for a repository that needed archiving
C4_Witness ==
  \E c \in Calls :
    /\ nop /\ SyncReturned(c) /\ Desired = JSTrue /\ seen[c] = RepoData(JSFalse)
    /\ Len(results[c]) = 1

\* C5 as stated: the parameters in a NopCommand's endpoint descriptor are the
\* parameters Apply mode would pass to the remote update for the same decision.
C5_PreviewFidelity ==
  \A c \in Calls :
    (nop /\ SyncReturned(c) /\ Len(results[c]) = 1) =>
      results[c][1].endpoint = UpdateParams(sa[c])

\* C6: in Apply mode a sync that found the repository and needs an action sends
\* exactly one update, with the instance's owner and repo and the boolean true for
\* Archive, false for Unarchive; it sends none otherwise; it returns one entry; and
\* its debug entry about the update is logged only once the update has succeeded.
C6_ApplyUpdate ==
  ~nop =>
    \A c \in Calls :
      /\ (kind[c] = "sync" /\ ActionNeeded(c)) =>
           /\ Len(updates[c]) = 1
           /\ updates[c][1] = Params(TheRepo.owner, TheRepo.repo,
                                     IF TableArchive(seen[c].archived) THEN JSTrue ELSE JSFalse)
      /\ updates[c] # <<>> => kind[c] = "sync" /\ ActionNeeded(c)
      /\ (SyncReturned(c) /\ ActionNeeded(c)) => Len(results[c]) = 1
      /\ (\E i \in 1..Len(logs[c]) : logs[c][i].msg \in {"archived", "unarchived"}) =>
           /\ updResp[c].tag = "data"
           /\ pc[c] = "done"
           /\ logs[c] = <<[level |-> "debug",
                           msg |-> IF TableArchive(seen[c].archived)
                                   THEN "archived" ELSE "unarchived"]>>

\* an Apply sync unarchived a repository and logged it
C6_Witness ==
  \E c \in Calls :
    /\ ~nop /\ SyncReturned(c) /\ seen[c] = RepoData(JSTrue)
    /\ updates[c] = <<Params(TheRepo.owner, TheRepo.repo, JSFalse)>>
    /\ Len(logs[c]) = 1

\* C7: when the get fails with status 404, getRepo returns null, and sync logs the
\* warning, returns the empty list and sends no update.
C7_NotFound ==
  \A c \in Calls :
    (pc[c] = "done" /\ getResp[c] = ErrorResp(NotFoundStatus)) =>
      /\ seen[c] = NullRepository
      /\ outcome[c] = "returned"
      /\ kind[c] = "sync" =>
           /\ results[c] = <<>>
           /\ logs[c] = <<WarnNotFound>>
           /\ updates[c] = <<>>

\* an Apply sync whose settings ask for archiving met a repository that is not there
C7_Witness ==
  \E c \in Calls :
    /\ ~nop /\ Desired = JSTrue /\ SyncReturned(c)
    /\ getResp[c] = ErrorResp(NotFoundStatus)

\* C8: a get that fails with another status, and an update that fails with any
\* status, make sync reject with that same error: no update follows a failed get,
\* no second update and no debug entry follow a failed update, one get is sent, and
\* no list is returned.
C8_FailuresPropagate ==
  \A c \in Calls :
    (pc[c] = "done" /\ kind[c] = "sync") =>
      /\ (getResp[c].tag = "error" /\ getResp[c].error.status # NotFoundStatus) =>
           /\ outcome[c] = "threw"
           /\ thrown[c] = getResp[c].error
           /\ updates[c] = <<>>
           /\ gets[c] = 1
           /\ results[c] = <<>> /\ logs[c] = <<>>
      /\ updResp[c].tag = "error" =>
           /\ outcome[c] = "threw"
           /\ thrown[c] = updResp[c].error
           /\ Len(updates[c]) = 1
           /\ gets[c] = 1
           /\ results[c] = <<>> /\ logs[c] = <<>>

\* one sync rejected with the error of its get while another rejected with the
\* error of its update
C8_Witness ==
  /\ \E c \in Calls : pc[c] = "done" /\ kind[c] = "sync" /\ outcome[c] = "threw"
                        /\ getResp[c].tag = "error" /\ thrown[c] = getResp[c].error
  /\ \E c \in Calls : pc[c] = "done" /\ kind[c] = "sync" /\ outcome[c] = "threw"
                        /\ updResp[c].tag = "error" /\ thrown[c] = updResp[c].error

\* C9: when the repository was found and the table selects no action (desired
\* Unset, or archived already as desired), sync logs the no-change debug entry,
\* returns the empty list and sends no update, in either mode.
C9_NoAction ==
  \A c \in Calls :
    (pc[c] = "done" /\ kind[c] = "sync" /\ seen[c].tag = "data" /\ ~ActionNeeded(c)) =>
      /\ outcome[c] = "returned"
      /\ results[c] = <<>>
      /\ logs[c] = <<DebugNoChange>>
      /\ updates[c] = <<>>

\* a sync with no desired state met an archived repository
C9_Witness ==
  \E c \in Calls :
    /\ pc[c] = "done" /\ kind[c] = "sync" /\ Desired = Null
    /\ seen[c] = RepoData(JSTrue)

\* the normalization table of settings.archived
Normalized ==
  IF ~settings.defined \/ settings.archived = Undefined THEN Null
  ELSE IF settings.archived \in {JSTrue, Str("true")} THEN JSTrue
  ELSE JSFalse

\* C10: getDesiredArchiveState returns null for absent settings or an undefined
\* archived, true for the boolean true and the string "true", and false for every
\* other value.
C10_Normalize ==
  probe.called => probe.desired = Normalized

\* getDesiredArchiveState was called with settings.archived = "TRUE"
C10_Witness ==
  probe.called /\ settings.defined /\ settings.archived = Str("TRUE")
    /\ probe.desired = JSFalse

\* C11: for a decision on which an action is selected, the NopCommand's
\* change.modifications.archived is "archive" exactly when Apply mode would send
\* archived = true and "unarchive" exactly when it would send archived = false;
\* additions and deletions are empty.
C11_ChangeRecordParity ==
  \A c \in Calls :
    (nop /\ SyncReturned(c) /\ Len(results[c]) = 1) =>
      LET change == results[c][1].change
          sent == UpdateParams(sa[c]).archived
      IN /\ change.modifications = "archive" <=> sent = JSTrue
         /\ change.modifications = "unarchive" <=> sent = JSFalse
         /\ change.modifications \in {"archive", "unarchive"}
         /\ change.modifications = "archive" <=> TableArchive(seen[c].archived)
         /\ change.additions = {} /\ change.deletions = {}

\* a Preview sync reported "unarchive" for an archived repository
C11_Witness ==
  \E c \in Calls :
    /\ nop /\ SyncReturned(c) /\ Len(results[c]) = 1
    /\ seen[c] = RepoData(JSTrue)
    /\ results[c][1].change.modifications = "unarchive"

\* C12 as stated: the entry an Apply sync returns after a successful update is
\* the remote's response or a success marker, a defined value.
C12_ApplyReturnsResponse ==
  \A c \in Calls :
    (~nop /\ SyncReturned(c) /\ Len(results[c]) = 1) =>
      results[c][1].type # "undefined"

\* C13: a call sends one get and at most one update, in sequence: the predicates
\* are computed only once the get has answered, an update is sent only after the
\* predicates are computed, and only by a sync whose get answered with the
\* repository's data.
C13_Sequenced ==
  \A c \in Calls :
    /\ gets[c] <= 1
    /\ Len(updates[c]) <= 1
    /\ Active(c) \/ pc[c] = "done" => gets[c] = 1
    /\ pc[c] \in {"idle", "get", "gotresp"} =>
         /\ sa[c] = Undefined /\ su[c] = Undefined
         /\ updates[c] = <<>>
         /\ updResp[c] = NoResp
    /\ pc[c] = "get" => getResp[c] = NoResp
    /\ Decided(c) => getResp[c].tag = "data" /\ seen[c] = getResp[c].data
    /\ updates[c] # <<>> =>
         /\ Decided(c)
         /\ getResp[c].tag = "data"
         /\ seen[c].tag = "data"
    /\ pc[c] \in {"update", "updresp"} => Len(updates[c]) = 1
    /\ updResp[c] # NoResp => Len(updates[c]) = 1

\* a sync whose get has answered with data awaits the one update it sent
C13_Witness ==
  \E c \in Calls :
    /\ pc[c] = "update" /\ gets[c] = 1 /\ Len(updates[c]) = 1
    /\ getResp[c].tag = "data"

\* C14 as stated: no state written by a call outlives it: whenever no call is in
\* progress, what isArchived, shouldArchive and shouldUnarchive return with their
\* default argument is what they return on an instance that holds no snapshot.
C14_NoStateOutlivesCall ==
  (\A c \in Calls : ~Active(c)) =>
    /\ isArchived = ArchivedOf(NoRepository)
    /\ shouldArchive(repository) = shouldArchive(NoRepository)
    /\ shouldUnarchive(repository) = shouldUnarchive(NoRepository)

\* C15 as stated: when the get answers not-found, no action is reported: sync
\* computes no predicate, sends no update and returns the empty list, and getState
\* reports shouldArchive and shouldUnarchive as falsy, whatever the desired state.
C15_NotFoundNoAction ==
  \A c \in Calls :
    (pc[c] = "done" /\ seen[c] = NullRepository) =>
      /\ kind[c] = "sync" =>
           /\ sa[c] = Undefined /\ su[c] = Undefined
           /\ updates[c] = <<>> /\ results[c] = <<>>
      /\ kind[c] = "getState" =>
           /\ ~Truthy(state[c].shouldArchive)
           /\ ~Truthy(state[c].shouldUnarchive)

\* the remote repository's archived attribute is the desired state (a repository
\* that reports no archived attribute counts as not archived)
RemoteIsDesired ==
  /\ remote.exists
  /\ Truthy(remote.archived) <=> Desired = JSTrue
  /\ remote.archived # Undefined => remote.archived = Desired

\* C16: every update sync sends carries a genuine boolean equal to the normalized
\* desired state, also when settings.archived is a string; and once an Apply sync
\* on a repository it found, with a desired state set, has returned with no
\* external mutation since it started, the remote archived attribute is the
\* desired state.
C16_Convergence ==
  \A c \in Calls :
    /\ \A i \in 1..Len(updates[c]) :
         /\ updates[c][i].archived \in {JSTrue, JSFalse}
         /\ updates[c][i].archived = Desired
    /\ (~nop /\ SyncReturned(c) /\ seen[c].tag = "data" /\ Desired # Null /\ ~meddled[c]) =>
         RemoteIsDesired

\* an Apply sync configured with the string "true" archived the repository
C16_Witness ==
  \E c \in Calls :
    /\ ~nop /\ SyncReturned(c) /\ ~meddled[c]
    /\ settings.archived = Str("true")
    /\ seen[c] = RepoData(JSFalse)
    /\ Len(updates[c]) = 1
    /\ remote.archived = JSTrue

\* C17: when two overlapping Apply syncs on a repository both found, with a desired
\* state set, have both returned with no external mutation since they started, the
\* remote archived attribute is the desired state, each sent at most one update
\* and every update carried the desired value.
C17_ConcurrentSyncs ==
  (/\ ~nop
   /\ Desired # Null
   /\ \A c \in Calls : SyncReturned(c) /\ seen[c].tag = "data" /\ tainted[c] /\ ~meddled[c]) =>
    /\ RemoteIsDesired
    /\ \A c \in Calls :
         /\ Len(updates[c]) <= 1
         /\ \A i \in 1..Len(updates[c]) : updates[c][i].archived = Desired

\* two overlapping Apply syncs both sent an update from the same stale snapshot
C17_Witness ==
  /\ ~nop
  /\ \A c \in Calls :
       /\ SyncReturned(c) /\ tainted[c] /\ ~meddled[c]
       /\ seen[c] = RepoData(JSFalse)
       /\ Len(updates[c]) = 1

\* C18: each call decides from the snapshot its own get returned: the predicates
\* of a sync, the object getState returns, and the not-found check are those of the
\* call's own response, whatever another call stored in this.repository.
C18_OwnSnapshot ==
  \A c \in Calls :
    /\ Decided(c) =>
         /\ sa[c] = shouldArchive(getResp[c].data)
         /\ su[c] = shouldUnarchive(getResp[c].data)
    /\ (pc[c] = "done" /\ kind[c] = "getState" /\ outcome[c] = "returned") =>
         state[c] = StateOf(getRepo(getResp[c]).value)
    /\ SyncReturned(c) =>
         (WarnNotFound \in {logs[c][i] : i \in 1..Len(logs[c])} <=> getResp[c].tag = "error")

\* a getState finished with one snapshot of the repository, and then an overlapping
\* sync decided from its own, different snapshot
C18_Witness ==
  \E c, d \in Calls :
    /\ c # d
    /\ Decided(c)
    /\ pc[d] = "done" /\ kind[d] = "getState"
    /\ seen[c].tag = "data" /\ seen[d].tag = "data"
    /\ seen[c] # seen[d]
    /\ repository = seen[c]

====
